---- MODULE Spec2Model ----
(***************************************************************************)
(* A model of the Node engine of package tree (node/_node.go): the linked  *)
(* node graph (up/left/right/first/last), the structural mutations Graft*, *)
(* Prune and Take, the synchronous Visit and the throttled VisitAsync.     *)
(***************************************************************************)
EXTENDS Integers, Sequences, FiniteSets, TLC

\* ------------------------------------------------------------ bounds
\* number of Node objects the mutation model allocates at most
NumNodes == 4
\* number of Node objects in the trees the traversals walk
MaxTreeNodes == 4
\* largest goroutine limit handed to VisitAsync
MaxLim == 3
\* number of Node objects in the trees that are marshaled
MaxJsonNodes == 3

\* ------------------------------------------------------------ the heap
\* a *Node is an index into the heap; nil is the null pointer
nil == 0

Nodes == 1..NumNodes

\* the argument lists handed to Tree.Seed: (type, value). No mutation below
\* reads or writes T or V, so one typed leaf value stands for them all.
SeedArgs == {<<2, "A">>}

\* the Node struct, zero valued
ZeroNode ==
  [T |-> 0, V |-> "", up |-> nil, left |-> nil, right |-> nil,
   first |-> nil, last |-> nil]

\* assignment  p.f = v  on the heap nd
Set(nd, p, f, v) == [nd EXCEPT ![p] = [@ EXCEPT ![f] = v]]

\* ------------------------------------------------------------ accessors
RECURSIVE RightChain(_, _, _)
RightChain(nd, cur, fuel) ==
  IF cur = nil \/ fuel = 0 THEN <<>>
  ELSE <<cur>> \o RightChain(nd, nd[cur].right, fuel - 1)

\* an AllUnder that starts its slice empty and so leaves out the first child
AllUnderNoFirst(nd, n) ==
  IF nd[n].first = nil THEN <<>>
  ELSE RightChain(nd, nd[nd[n].first].right, Cardinality(DOMAIN nd) + 1)

\* AllUnder: walk first, then right links until nil
AllUnder(nd, n) ==
  IF nd[n].first = nil THEN <<>>
  ELSE RightChain(nd, nd[n].first, Cardinality(DOMAIN nd) + 1)

IsRoot(nd, n) == nd[n].up = nil

IsDetached(nd, n) ==
  /\ nd[n].up = nil /\ nd[n].first = nil
  /\ nd[n].last = nil /\ nd[n].left = nil /\ nd[n].right = nil

IsBranch(nd, n) == nd[n].first # nil

\* ------------------------------------------------------------ mutation
GraftRightNoLast(nd, n, r) ==
  LET a == Set(nd, r, "up", nd[n].up) IN
  IF a[n].right = nil
  THEN LET b == Set(a, r, "left", n) IN Set(b, n, "right", r)
  ELSE LET b == Set(a, r, "right", a[n].right)
           c == Set(b, r, "left", n)
           d == Set(c, c[n].right, "left", r)
       IN  Set(d, n, "right", r)

GraftRight(nd, n, r) ==
  LET a == Set(nd, r, "up", nd[n].up) IN
  IF a[n].right = nil
  THEN LET b == Set(a, r, "left", n)
           c == Set(b, n, "right", r)
       IN  IF c[n].up # nil THEN Set(c, c[n].up, "last", r) ELSE c
  ELSE LET b == Set(a, r, "right", a[n].right)
           c == Set(b, r, "left", n)
           d == Set(c, c[n].right, "left", r)
       IN  Set(d, n, "right", r)

\* a GraftLeft that leaves the parent's first pointer where it was
GraftLeftNoFirst(nd, n, l) ==
  LET a == Set(nd, l, "up", nd[n].up) IN
  IF a[n].left = nil
  THEN LET b == Set(a, l, "right", n) IN Set(b, n, "left", l)
  ELSE LET b == Set(a, l, "left", a[n].left)
           c == Set(b, l, "right", n)
           d == Set(c, c[n].left, "right", l)
       IN  Set(d, n, "left", l)

GraftLeft(nd, n, l) ==
  LET a == Set(nd, l, "up", nd[n].up) IN
  IF a[n].left = nil
  THEN LET b == Set(a, l, "right", n)
           c == Set(b, n, "left", l)
       IN  IF c[n].up # nil THEN Set(c, c[n].up, "first", l) ELSE c
  ELSE LET b == Set(a, l, "left", a[n].left)
           c == Set(b, l, "right", n)
           d == Set(c, c[n].left, "right", l)
       IN  Set(d, n, "left", l)

GraftUnder(nd, n, c) ==
  LET a == Set(nd, c, "up", n) IN
  IF a[n].first = nil
  THEN Set(Set(a, n, "first", c), n, "last", c)
  ELSE GraftRight(a, a[n].last, c)

PruneNoPeers(nd, n) ==
  LET a == IF nd[n].up # nil /\ nd[nd[n].up].first = n
           THEN Set(nd, nd[n].up, "first", nd[n].right) ELSE nd
      b == IF a[n].up # nil /\ a[a[n].up].last = n
           THEN Set(a, a[n].up, "last", a[n].left) ELSE a
  IN  Set(Set(Set(b, n, "up", nil), n, "right", nil), n, "left", nil)

Prune(nd, n) ==
  LET a == IF nd[n].up # nil /\ nd[nd[n].up].first = n
           THEN Set(nd, nd[n].up, "first", nd[n].right) ELSE nd
      b == IF a[n].up # nil /\ a[a[n].up].last = n
           THEN Set(a, a[n].up, "last", a[n].left) ELSE a
      c == IF b[n].left # nil THEN Set(b, b[n].left, "right", b[n].right) ELSE b
      d == IF c[n].right # nil THEN Set(c, c[n].right, "left", c[n].left) ELSE c
  IN  Set(Set(Set(d, n, "up", nil), n, "right", nil), n, "left", nil)

\* Take, with the number of prune-and-graft steps it made
RECURSIVE TakeRec(_, _, _, _)
TakeRec(nd, n, from, steps) ==
  IF nd[from].first = nil THEN [nd |-> nd, steps |-> steps]
  ELSE LET c == nd[from].first
       IN  TakeRec(GraftUnder(Prune(nd, c), n, c), n, from, steps + 1)

\* a Take that drains the source from its last child
RECURSIVE TakeFromLastRec(_, _, _, _)
TakeFromLastRec(nd, n, from, steps) ==
  IF nd[from].first = nil THEN [nd |-> nd, steps |-> steps]
  ELSE LET c == nd[from].last
       IN  TakeFromLastRec(GraftUnder(Prune(nd, c), n, c), n, from, steps + 1)

TakeFromLast(nd, n, from) == TakeFromLastRec(nd, n, from, 0)

Take(nd, n, from) == TakeRec(nd, n, from, 0)

\* ------------------------------------------------------------ state
VARIABLES
  nodes,    \* the heap: Node index -> Node struct
  seeded,   \* how many Nodes Tree.Seed has handed out (indexes 1..seeded)
  last,     \* the call that produced this state: op, receiver, argument, result
  prev,     \* the heap as it was when that call was made
  vtop,     \* the receiver of the Visit / VisitAsync call under way, or nil
  rvals,    \* the results channel handed in: "nil", "open" or "closed"
  stack,    \* Visit's call stack: one frame per active c.Visit call
  acts,     \* the nodes the Action was invoked on, in invocation order
  recvd,    \* the values the consumer has received from rvals, in order
  consumer, \* the consumer of rvals: "ready" (in a receive), "busy", "stopped"
  lim,      \* VisitAsync's limit argument
  apc,      \* where the goroutine that called VisitAsync is
  flat,     \* VisitAsync's local slice "nodes": the flattened subtree
  idx,      \* the index of the launch loop over that slice
  fill,     \* the counter i of the loop that fills sem again
  sem,      \* how many values the buffered channel sem holds
  task,     \* per node, where the goroutine launched for it is
  ran,      \* per node, how many times a goroutine ran the Action on it
  got       \* per node, how many of its results the consumer received

treeVars == <<nodes, seeded, last, prev>>

visitVars == <<vtop, rvals, stack, acts, recvd, consumer>>

asyncVars == <<lim, apc, flat, idx, fill, sem, task, ran, got>>

travVars == <<visitVars, asyncVars>>

vars == <<treeVars, visitVars, asyncVars>>

Live == 1..seeded

\* ------------------------------------------------------------ tree shape
RECURSIVE UpChain(_, _, _)
UpChain(nd, n, fuel) ==
  IF n = nil \/ fuel = 0 THEN {}
  ELSE {n} \cup UpChain(nd, nd[n].up, fuel - 1)

\* the proper ancestors of n
Ancestors(nd, n) == UpChain(nd, nd[n].up, Cardinality(DOMAIN nd))

\* n and everything below it
Subtree(nd, n) == {m \in DOMAIN nd : n \in UpChain(nd, m, Cardinality(DOMAIN nd))}

\* the caller contract of the graft calls: the argument is parentless and
\* sibling free, and is neither the receiver nor above it
GraftArgOK(nd, n, c) ==
  /\ c # n
  /\ nd[c].up = nil /\ nd[c].left = nil /\ nd[c].right = nil
  /\ c \notin Ancestors(nd, n)

\* the caller contract of Take: distinct nodes, receiver not inside source
TakeArgOK(nd, n, from) ==
  /\ n # from
  /\ n \notin Subtree(nd, from)

\* Tree.Seed: the next unused Node, initialized, with the type and value given
Seed(nd, k, args) == [nd EXCEPT ![k] = [ZeroNode EXCEPT !.T = args[1], !.V = args[2]]]

NewRight(nd, n, k, args) == GraftRight(Seed(nd, k, args), n, k)

NewLeft(nd, n, k, args) == GraftLeft(Seed(nd, k, args), n, k)

NewUnder(nd, n, k, args) == GraftUnder(Seed(nd, k, args), n, k)

NoCall == [op |-> "none", n |-> nil, c |-> nil, ret |-> nil, steps |-> 0]

Call(op, n, c, ret) == [op |-> op, n |-> n, c |-> c, ret |-> ret, steps |-> 0]

\* ------------------------------------------------------------ actions
Init ==
  /\ nodes = [n \in Nodes |-> ZeroNode]
  /\ seeded = 0
  /\ last = NoCall
  /\ prev = [n \in Nodes |-> ZeroNode]
  /\ vtop = nil /\ rvals = "nil" /\ stack = <<>>
  /\ acts = <<>> /\ recvd = <<>> /\ consumer = "stopped"
  /\ lim = 0 /\ apc = "none" /\ flat = <<>> /\ idx = 0 /\ fill = 0
  /\ sem = 0 /\ task = <<>> /\ ran = <<>> /\ got = <<>>

DoSeed ==
  /\ seeded < NumNodes
  /\ \E args \in SeedArgs :
       /\ nodes' = Seed(nodes, seeded + 1, args)
       /\ last' = Call("Seed", nil, nil, seeded + 1)
  /\ seeded' = seeded + 1
  /\ prev' = nodes
  /\ UNCHANGED travVars

DoGraftRight ==
  \E n \in Live, r \in Live :
    /\ GraftArgOK(nodes, n, r)
    /\ nodes' = GraftRight(nodes, n, r)
    /\ last' = Call("GraftRight", n, r, r)
    /\ prev' = nodes
    /\ UNCHANGED <<seeded, travVars>>

DoGraftLeft ==
  \E n \in Live, l \in Live :
    /\ GraftArgOK(nodes, n, l)
    /\ nodes' = GraftLeft(nodes, n, l)
    /\ last' = Call("GraftLeft", n, l, l)
    /\ prev' = nodes
    /\ UNCHANGED <<seeded, travVars>>

DoGraftUnder ==
  \E n \in Live, c \in Live :
    /\ GraftArgOK(nodes, n, c)
    /\ nodes' = GraftUnder(nodes, n, c)
    /\ last' = Call("GraftUnder", n, c, c)
    /\ prev' = nodes
    /\ UNCHANGED <<seeded, travVars>>

DoNewRight ==
  /\ seeded < NumNodes
  /\ \E n \in Live, args \in SeedArgs :
       /\ nodes' = NewRight(nodes, n, seeded + 1, args)
       /\ last' = Call("NewRight", n, seeded + 1, seeded + 1)
  /\ seeded' = seeded + 1
  /\ prev' = nodes
  /\ UNCHANGED travVars

DoNewLeft ==
  /\ seeded < NumNodes
  /\ \E n \in Live, args \in SeedArgs :
       /\ nodes' = NewLeft(nodes, n, seeded + 1, args)
       /\ last' = Call("NewLeft", n, seeded + 1, seeded + 1)
  /\ seeded' = seeded + 1
  /\ prev' = nodes
  /\ UNCHANGED travVars

DoNewUnder ==
  /\ seeded < NumNodes
  /\ \E n \in Live, args \in SeedArgs :
       /\ nodes' = NewUnder(nodes, n, seeded + 1, args)
       /\ last' = Call("NewUnder", n, seeded + 1, seeded + 1)
  /\ seeded' = seeded + 1
  /\ prev' = nodes
  /\ UNCHANGED travVars

DoPrune ==
  \E n \in Live :
    /\ nodes' = Prune(nodes, n)
    /\ last' = Call("Prune", n, nil, n)
    /\ prev' = nodes
    /\ UNCHANGED <<seeded, travVars>>

DoTake ==
  \E n \in Live, from \in Live :
    /\ TakeArgOK(nodes, n, from)
    /\ LET t == Take(nodes, n, from) IN
         /\ nodes' = t.nd
         /\ last' = [Call("Take", n, from, nil) EXCEPT !.steps = t.steps]
    /\ prev' = nodes
    /\ UNCHANGED <<seeded, travVars>>

Next ==
  \/ DoSeed
  \/ DoGraftRight
  \/ DoGraftLeft
  \/ DoGraftUnder
  \/ DoNewRight
  \/ DoNewLeft
  \/ DoNewUnder
  \/ DoPrune
  \/ DoTake

Spec == Init /\ [][Next]_vars

\* ------------------------------------------------------------ trees to walk
TreeHeap == [n \in 1..MaxTreeNodes |-> ZeroNode]

\* how node k joins the tree: under a parent p created before it, as p's last
\* child (NewUnder) or to the left of p's first child (NewLeft)
Joins(N) ==
  {ch \in [2..N -> (1..N) \X {"last", "first"}] : \A k \in 2..N : ch[k][1] < k}

RECURSIVE Grow(_, _, _)
Grow(nd, k, ch) ==
  IF k \notin DOMAIN ch THEN nd
  ELSE LET p == ch[k][1]
           a == IF ch[k][2] = "first" /\ nd[p].first # nil
                THEN NewLeft(nd, nd[p].first, k, <<2, "A">>)
                ELSE NewUnder(nd, p, k, <<2, "A">>)
       IN  Grow(a, k + 1, ch)

\* the joins that only ever use NewUnder
JoinsUnder(N) == {ch \in Joins(N) : \A k \in 2..N : ch[k][2] = "last"}

\* the tree of N nodes grown from a root of type 1
TreeOf(N, ch) == Grow(Seed(TreeHeap, 1, <<1, "">>), 2, ch)

\* ------------------------------------------------------------ Visit
\* the value the Action returns for a node
ActValue(n) == <<"rval", n>>

\* the frame of a call c.Visit(act, rvals) that has just been entered
Frame(n) == [n |-> n, pc |-> "act", kids |-> <<>>, i |-> 0]

Top == stack[Len(stack)]

SetTop(stk, f) == [stk EXCEPT ![Len(stk)] = f]

Pop(stk) == SubSeq(stk, 1, Len(stk) - 1)

\* a Visit that drops the Action's return value even when handed a channel
AfterActDiscard(rv) == "kids"

\* where Visit goes once act(n) has returned: on, or into the send on rvals
AfterAct(rv) == IF rv = "nil" THEN "kids" ELSE "send"

InitVisit ==
  /\ \E N \in 1..MaxTreeNodes : \E ch \in Joins(N) :
       /\ nodes = TreeOf(N, ch)
       /\ seeded = N
  /\ prev = nodes
  /\ vtop \in 1..seeded
  /\ last = Call("Visit", vtop, nil, nil)
  /\ rvals \in {"nil", "open"}
  /\ stack = <<Frame(vtop)>>
  /\ acts = <<>>
  /\ recvd = <<>>
  /\ consumer \in (IF rvals = "nil" THEN {"stopped"} ELSE {"ready", "busy"})
  /\ lim = 0 /\ apc = "none" /\ flat = <<>> /\ idx = 0 /\ fill = 0
  /\ sem = 0 /\ task = <<>> /\ ran = <<>> /\ got = <<>>

\* act(n) is called
VisitAct ==
  /\ stack # <<>> /\ Top.pc = "act"
  /\ acts' = Append(acts, Top.n)
  /\ stack' = SetTop(stack, [Top EXCEPT !.pc = AfterAct(rvals)])
  /\ UNCHANGED <<treeVars, asyncVars, vtop, rvals, recvd, consumer>>

\* rvals <- act(n): the send on the unbuffered channel completes when the
\* consumer takes the value
VisitSend ==
  /\ stack # <<>> /\ Top.pc = "send"
  /\ consumer = "ready"
  /\ recvd' = Append(recvd, ActValue(Top.n))
  /\ consumer' = "busy"
  /\ stack' = SetTop(stack, [Top EXCEPT !.pc = "kids"])
  /\ UNCHANGED <<treeVars, asyncVars, vtop, rvals, acts>>

\* the consumer comes back to its receive
ConsumerReady ==
  /\ consumer = "busy"
  /\ consumer' = "ready"
  /\ UNCHANGED <<treeVars, asyncVars, vtop, rvals, stack, acts, recvd>>

\* if n.first == nil return, else take the slice n.AllUnder() to range over
VisitKids ==
  /\ stack # <<>> /\ Top.pc = "kids"
  /\ stack' = IF nodes[Top.n].first = nil
              THEN Pop(stack)
              ELSE SetTop(stack, [Top EXCEPT !.pc = "range",
                                             !.kids = AllUnder(nodes, Top.n),
                                             !.i = 1])
  /\ UNCHANGED <<treeVars, asyncVars, vtop, rvals, acts, recvd, consumer>>

\* one turn of the range loop: c.Visit(act, rvals), or return after the last
VisitRange ==
  /\ stack # <<>> /\ Top.pc = "range"
  /\ stack' = IF Top.i <= Len(Top.kids)
              THEN Append(SetTop(stack, [Top EXCEPT !.i = @ + 1]),
                          Frame(Top.kids[Top.i]))
              ELSE Pop(stack)
  /\ UNCHANGED <<treeVars, asyncVars, vtop, rvals, acts, recvd, consumer>>

NextVisit ==
  \/ VisitAct
  \/ VisitSend
  \/ ConsumerReady
  \/ VisitKids
  \/ VisitRange

SpecVisit == InitVisit /\ [][NextVisit]_vars

\* ------------------------------------------------------------ VisitAsync
\* n.Visit(add, nil): the slice the add closure has built when Visit returns
RECURSIVE Flatten(_, _), FlattenEach(_, _, _)
Flatten(nd, n) ==
  <<n>> \o (IF nd[n].first = nil THEN <<>>
            ELSE FlattenEach(nd, AllUnder(nd, n), 1))

FlattenEach(nd, kids, i) ==
  IF i > Len(kids) THEN <<>>
  ELSE Flatten(nd, kids[i]) \o FlattenEach(nd, kids, i + 1)

\* the limits VisitAsync is called with
Lims == -1..MaxLim

\* a guard that lets a limit of 1 through
LimBelowOne(l) == l < 1

\* if lim < 2 { panic(...) }
LimTooSmall(l) == l < 2

\* a semaphore made with one slot too many
SemHasRoomForOneMore(s, l) == s <= l

\* sem := make(chan interface{}, lim): a send on it goes through while the
\* buffer holds fewer than lim values
SemHasRoom(s, l) == s < l

\* a refill loop that stops one short
FillCountShort(l) == l - 1

\* for i := 0; i < cap(sem); i++: the number of values the last loop sends
FillCount(l) == l

\* a goroutine that returns without its deferred receive from sem
SemKept(s) == s

\* defer func() { <-sem }()
SemAfterRelease(s) == s - 1

TreeNodes == 1..MaxTreeNodes

InitAsync ==
  /\ \E N \in 1..MaxTreeNodes : \E ch \in JoinsUnder(N) :
       /\ nodes = TreeOf(N, ch)
       /\ seeded = N
  /\ prev = nodes
  /\ vtop \in 1..seeded
  /\ rvals \in {"nil", "open"}
  /\ last = Call("VisitAsync", vtop, rvals, nil)
  /\ consumer \in (IF rvals = "nil" THEN {"stopped"} ELSE {"ready", "busy"})
  /\ lim \in Lims
  /\ apc = "start"
  /\ flat = <<>> /\ idx = 0 /\ fill = 0 /\ sem = 0
  /\ task = [t \in TreeNodes |-> "idle"]
  /\ ran = [t \in TreeNodes |-> 0]
  /\ got = [t \in TreeNodes |-> 0]
  /\ stack = <<>> /\ acts = <<>> /\ recvd = <<>>

\* lim < 2: panic, before anything else is done
AsyncPanic ==
  /\ apc = "start"
  /\ LimTooSmall(lim)
  /\ apc' = "panic"
  /\ UNCHANGED <<treeVars, visitVars, lim, flat, idx, fill, sem, task, ran, got>>

\* n.Visit(add, nil), then sem is made and the launch loop entered
AsyncFlatten ==
  /\ apc = "start"
  /\ ~LimTooSmall(lim)
  /\ flat' = Flatten(nodes, vtop)
  /\ sem' = 0
  /\ idx' = 1
  /\ apc' = "acquire"
  /\ UNCHANGED <<treeVars, visitVars, lim, fill, task, ran, got>>

\* sem <- true, for the next node of the slice
AsyncAcquire ==
  /\ apc = "acquire"
  /\ idx <= Len(flat)
  /\ SemHasRoom(sem, lim)
  /\ sem' = sem + 1
  /\ apc' = "go"
  /\ UNCHANGED <<treeVars, visitVars, lim, flat, idx, fill, task, ran, got>>

\* go func(node *Node) {...}(node)
AsyncGo ==
  /\ apc = "go"
  /\ task' = [task EXCEPT ![flat[idx]] = "act"]
  /\ idx' = idx + 1
  /\ apc' = "acquire"
  /\ UNCHANGED <<treeVars, visitVars, lim, flat, fill, sem, ran, got>>

\* the range over the slice is exhausted
AsyncLaunched ==
  /\ apc = "acquire"
  /\ idx > Len(flat)
  /\ fill' = 0
  /\ apc' = "wait"
  /\ UNCHANGED <<treeVars, visitVars, lim, flat, idx, sem, task, ran, got>>

\* sem <- true in the loop that waits for all
AsyncFill ==
  /\ apc = "wait"
  /\ fill < FillCount(lim)
  /\ SemHasRoom(sem, lim)
  /\ sem' = sem + 1
  /\ fill' = fill + 1
  /\ UNCHANGED <<treeVars, visitVars, lim, apc, flat, idx, task, ran, got>>

\* if rvals != nil { close(rvals) }, and VisitAsync returns
AsyncClose ==
  /\ apc = "wait"
  /\ fill >= FillCount(lim)
  /\ rvals' = IF rvals = "nil" THEN "nil" ELSE "closed"
  /\ apc' = "done"
  /\ UNCHANGED <<treeVars, vtop, stack, acts, recvd, consumer,
                 lim, flat, idx, fill, sem, task, ran, got>>

\* act(node) runs in the goroutine launched for node t
TaskAct(t) ==
  /\ task[t] = "act"
  /\ ran' = [ran EXCEPT ![t] = @ + 1]
  /\ task' = [task EXCEPT ![t] = IF rvals = "nil" THEN "release" ELSE "send"]
  /\ UNCHANGED <<treeVars, visitVars, lim, apc, flat, idx, fill, sem, got>>

\* rvals <- act(node): completes when the consumer takes the value
TaskSend(t) ==
  /\ task[t] = "send"
  /\ rvals = "open"
  /\ consumer = "ready"
  /\ got' = [got EXCEPT ![t] = @ + 1]
  /\ consumer' = "busy"
  /\ task' = [task EXCEPT ![t] = "release"]
  /\ UNCHANGED <<treeVars, vtop, rvals, stack, acts, recvd,
                 lim, apc, flat, idx, fill, sem, ran>>

\* the deferred <-sem, and the goroutine ends
TaskRelease(t) ==
  /\ task[t] = "release"
  /\ sem > 0
  /\ sem' = SemAfterRelease(sem)
  /\ task' = [task EXCEPT ![t] = "done"]
  /\ UNCHANGED <<treeVars, visitVars, lim, apc, flat, idx, fill, ran, got>>

\* the consumer's receive reports the channel closed
ConsumerStop ==
  /\ consumer = "ready"
  /\ rvals = "closed"
  /\ consumer' = "stopped"
  /\ UNCHANGED <<treeVars, asyncVars, vtop, rvals, stack, acts, recvd>>

Caller ==
  \/ AsyncPanic
  \/ AsyncFlatten
  \/ AsyncAcquire
  \/ AsyncGo
  \/ AsyncLaunched
  \/ AsyncFill
  \/ AsyncClose

Goroutine(t) ==
  \/ TaskAct(t)
  \/ TaskSend(t)
  \/ TaskRelease(t)

Consumer ==
  \/ ConsumerReady
  \/ ConsumerStop

NextAsync ==
  \/ Caller
  \/ \E t \in TreeNodes : Goroutine(t)
  \/ Consumer

SpecAsync == InitAsync /\ [][NextAsync]_vars

\* every goroutine that can take a step eventually does
FairAsync ==
  /\ InitAsync
  /\ [][NextAsync]_vars
  /\ WF_vars(Caller)
  /\ \A t \in TreeNodes : WF_vars(Goroutine(t))
  /\ WF_vars(Consumer)

\* ------------------------------------------------------------ Init, Morph, Graft
\* Node.Init: type 0, empty value, every link nil
NodeInit(nd, n) ==
  LET a == Set(Set(nd, n, "T", 0), n, "V", "")
      b == Set(Set(Set(a, n, "up", nil), n, "left", nil), n, "right", nil)
  IN  Set(Set(b, n, "first", nil), n, "last", nil)

\* a Morph that initializes its receiver before it looks at the argument
MorphInitFirst(nd, n, c) ==
  IF c = nil THEN [nd |-> NodeInit(nd, n), err |-> "error"]
  ELSE LET a == NodeInit(nd, n)
           b == Set(Set(a, n, "T", a[c].T), n, "V", a[c].V)
           d == Set(Set(Set(b, n, "up", b[c].up), n, "left", b[c].left),
                    n, "right", b[c].right)
       IN  [nd |-> Set(Set(d, n, "first", d[c].first), n, "last", d[c].last),
            err |-> "nil"]

\* a Morph that forgets the first pointer
MorphNoFirst(nd, n, c) ==
  IF c = nil THEN [nd |-> nd, err |-> "error"]
  ELSE LET a == NodeInit(nd, n)
           b == Set(Set(a, n, "T", a[c].T), n, "V", a[c].V)
           d == Set(Set(Set(b, n, "up", b[c].up), n, "left", b[c].left),
                    n, "right", b[c].right)
       IN  [nd |-> Set(d, n, "last", d[c].last), err |-> "nil"]

\* Morph: the heap afterwards and the error returned. The fields are read
\* from c after n.Init() has run.
Morph(nd, n, c) ==
  IF c = nil THEN [nd |-> nd, err |-> "error"]
  ELSE LET a == NodeInit(nd, n)
           b == Set(Set(a, n, "T", a[c].T), n, "V", a[c].V)
           d == Set(Set(Set(b, n, "up", b[c].up), n, "left", b[c].left),
                    n, "right", b[c].right)
       IN  [nd |-> Set(Set(d, n, "first", d[c].first), n, "last", d[c].last),
            err |-> "nil"]

\* a Graft that leaves the parent's first pointer on the replaced node
GraftNoParentFirst(nd, n, c) ==
  LET a == Set(nd, c, "up", nd[n].up)
      b == Set(a, c, "left", a[n].left)
      d == Set(b, c, "right", b[n].right)
  IN  IF d[n].up = nil THEN [nd |-> d, err |-> "panic", ret |-> nil]
      ELSE LET e == IF d[d[n].up].last = n THEN Set(d, d[n].up, "last", c) ELSE d
               g == IF e[n].left # nil THEN Set(e, e[n].left, "right", c) ELSE e
               h == IF g[n].right # nil THEN Set(g, g[n].right, "left", c) ELSE g
           IN  [nd |-> Set(Set(Set(h, n, "up", nil), n, "right", nil), n, "left", nil),
                err |-> "nil", ret |-> c]

\* Graft: the heap afterwards, the node returned, and "panic" when the read
\* of n.up.last dereferences a nil n.up (c's three links are already set)
Graft(nd, n, c) ==
  LET a == Set(nd, c, "up", nd[n].up)
      b == Set(a, c, "left", a[n].left)
      d == Set(b, c, "right", b[n].right)
  IN  IF d[n].up = nil THEN [nd |-> d, err |-> "panic", ret |-> nil]
      ELSE LET e == IF d[d[n].up].last = n THEN Set(d, d[n].up, "last", c) ELSE d
               f == IF e[e[n].up].first = n THEN Set(e, e[n].up, "first", c) ELSE e
               g == IF f[n].left # nil THEN Set(f, f[n].left, "right", c) ELSE f
               h == IF g[n].right # nil THEN Set(g, g[n].right, "left", c) ELSE g
           IN  [nd |-> Set(Set(Set(h, n, "up", nil), n, "right", nil), n, "left", nil),
                err |-> "nil", ret |-> c]

\* a call with the error (or panic) it ended in
CallErr(op, n, c, ret, err) ==
  [op |-> op, n |-> n, c |-> c, ret |-> ret, steps |-> 0, err |-> err]

\* the heaps Graft and Morph are called on: a tree, or the two trees left
\* when one of its nodes has been pruned
InitEdit ==
  /\ \E N \in 1..MaxTreeNodes : \E ch \in Joins(N) : \E x \in {nil} \cup 2..N :
       /\ nodes = IF x = nil THEN TreeOf(N, ch) ELSE Prune(TreeOf(N, ch), x)
       /\ seeded = N
  /\ prev = nodes
  /\ last = NoCall
  /\ vtop = nil /\ rvals = "nil" /\ stack = <<>>
  /\ acts = <<>> /\ recvd = <<>> /\ consumer = "stopped"
  /\ lim = 0 /\ apc = "none" /\ flat = <<>> /\ idx = 0 /\ fill = 0
  /\ sem = 0 /\ task = <<>> /\ ran = <<>> /\ got = <<>>

DoGraft ==
  /\ last.op = "none"
  /\ \E n \in Live, c \in Live :
       /\ GraftArgOK(nodes, n, c)
       /\ LET g == Graft(nodes, n, c) IN
            /\ nodes' = g.nd
            /\ last' = CallErr("Graft", n, c, g.ret, g.err)
  /\ prev' = nodes
  /\ UNCHANGED <<seeded, travVars>>

DoMorph ==
  /\ last.op = "none"
  /\ \E n \in Live, c \in Live \cup {nil} :
       LET m == Morph(nodes, n, c) IN
         /\ nodes' = m.nd
         /\ last' = CallErr("Morph", n, c, nil, m.err)
  /\ prev' = nodes
  /\ UNCHANGED <<seeded, travVars>>

NextEdit ==
  \/ DoGraft
  \/ DoMorph

SpecEdit == InitEdit /\ [][NextEdit]_vars

\* ------------------------------------------------------------ JSON
\* the (type, value) pairs the nodes of a marshaled tree carry
NodeKinds == {<<0, "">>, <<0, "A">>, <<1, "">>, <<2, "A">>, <<2, "B">>, <<2, "\"">>}

JsonValues == {k[2] : k \in NodeKinds}

TypeCodes == {k[1] : k \in NodeKinds}

\* json.Escape on the values above: a double quote gets a backslash
Escape(v) == IF v = "\"" THEN "\\\"" ELSE v

\* string(b): the bytes as one string
RECURSIVE Join(_)
Join(toks) == IF toks = <<>> THEN "" ELSE Head(toks) \o Join(Tail(toks))

\* a MarshalJSON without the test for type 0
RECURSIVE MarshalJSONNoEmpty(_, _), MarshalRestNoEmpty(_, _, _)
MarshalJSONNoEmpty(nd, n) ==
  LET list == AllUnder(nd, n) IN
  IF Len(list) = 0
  THEN IF nd[n].V = ""
       THEN <<"[", ToString(nd[n].T), "]">>
       ELSE <<"[", ToString(nd[n].T), ",", "\"", Escape(nd[n].V), "\"", "]">>
  ELSE <<"[", ToString(nd[n].T), ",", "[">>
         \o MarshalJSONNoEmpty(nd, list[1]) \o MarshalRestNoEmpty(nd, list, 2)
         \o <<"]", "]">>

MarshalRestNoEmpty(nd, list, i) ==
  IF i > Len(list) THEN <<>>
  ELSE <<",">> \o MarshalJSONNoEmpty(nd, list[i]) \o MarshalRestNoEmpty(nd, list, i + 1)

\* MarshalJSON: the bytes, as the sequence of their lexical pieces (bracket,
\* comma, quote, the digits of a type, an escaped value)
RECURSIVE MarshalJSON(_, _), MarshalRest(_, _, _)
MarshalJSON(nd, n) ==
  LET list == AllUnder(nd, n) IN
  IF Len(list) = 0
  THEN IF nd[n].V = ""
       THEN IF nd[n].T = 0
            THEN <<"[", "]">>
            ELSE <<"[", ToString(nd[n].T), "]">>
       ELSE <<"[", ToString(nd[n].T), ",", "\"", Escape(nd[n].V), "\"", "]">>
  ELSE <<"[", ToString(nd[n].T), ",", "[">>
         \o MarshalJSON(nd, list[1]) \o MarshalRest(nd, list, 2)
         \o <<"]", "]">>

\* for _, u := range list[1:]
MarshalRest(nd, list, i) ==
  IF i > Len(list) THEN <<>>
  ELSE <<",">> \o MarshalJSON(nd, list[i]) \o MarshalRest(nd, list, i + 1)

\* Node.JSON
JSON(nd, n) == Join(MarshalJSON(nd, n))

\* the piece at position i, or "EOF" past the end
Tok(toks, i) == IF i \in 1..Len(toks) THEN toks[i] ELSE "EOF"

IsTypeCode(tok) == \E t \in TypeCodes : ToString(t) = tok

TypeCodeOf(tok) == CHOOSE t \in TypeCodes : ToString(t) = tok

IsEscaped(tok) == \E v \in JsonValues : v # "" /\ Escape(v) = tok

Unescape(tok) == CHOOSE v \in JsonValues : v # "" /\ Escape(v) = tok

ParseFail(nd) == [ok |-> FALSE, pos |-> 0, nd |-> nd, node |-> nil, free |-> 0]

\* tree.Parse, by recursive descent over the grammar of the compact form:
\* [] | [T] | [T,"value"] | [T,[node,...]]; each node parsed is seeded at the
\* next free index and each child grafted under its parent
RECURSIVE ParseNode(_, _, _, _), ParseUnder(_, _, _, _, _)
ParseNode(toks, i, nd, free) ==
  IF Tok(toks, i) # "[" \/ free \notin DOMAIN nd THEN ParseFail(nd)
  ELSE
    LET me == free
        a == Seed(nd, me, <<0, "">>)
        done(pos, heap) == [ok |-> TRUE, pos |-> pos, nd |-> heap, node |-> me,
                            free |-> me + 1]
    IN  IF Tok(toks, i + 1) = "]" THEN done(i + 2, a)
        ELSE IF ~IsTypeCode(Tok(toks, i + 1)) THEN ParseFail(nd)
        ELSE
          LET b == Set(a, me, "T", TypeCodeOf(Tok(toks, i + 1))) IN
          IF Tok(toks, i + 2) = "]" THEN done(i + 3, b)
          ELSE IF Tok(toks, i + 2) # "," THEN ParseFail(nd)
          ELSE IF Tok(toks, i + 3) = "\""
          THEN IF /\ IsEscaped(Tok(toks, i + 4))
                  /\ Tok(toks, i + 5) = "\""
                  /\ Tok(toks, i + 6) = "]"
               THEN done(i + 7, Set(b, me, "V", Unescape(Tok(toks, i + 4))))
               ELSE ParseFail(nd)
          ELSE IF Tok(toks, i + 3) = "["
          THEN LET k == ParseUnder(toks, i + 4, b, me, me + 1) IN
               IF k.ok /\ Tok(toks, k.pos) = "]"
               THEN [k EXCEPT !.pos = k.pos + 1, !.node = me]
               ELSE ParseFail(nd)
          ELSE ParseFail(nd)

\* the children of parent, from position i up to and including the closing ]
ParseUnder(toks, i, nd, parent, free) ==
  LET c == ParseNode(toks, i, nd, free) IN
  IF ~c.ok THEN ParseFail(nd)
  ELSE LET g == GraftUnder(c.nd, parent, c.node) IN
       IF Tok(toks, c.pos) = ","
       THEN ParseUnder(toks, c.pos + 1, g, parent, c.free)
       ELSE IF Tok(toks, c.pos) = "]"
       THEN [c EXCEPT !.nd = g, !.pos = c.pos + 1]
       ELSE ParseFail(nd)

\* Parse: the new tree's nodes from index free on, its Root, or a failure
Parse(toks, nd, free) ==
  LET r == ParseNode(toks, 1, nd, free) IN
  IF r.ok /\ r.pos = Len(toks) + 1 THEN r ELSE ParseFail(nd)

\* UnmarshalJSON: Parse, then Morph onto the parsed Root
UnmarshalJSON(nd, n, toks, free) ==
  LET c == Parse(toks, nd, free) IN
  IF ~c.ok THEN [nd |-> nd, err |-> "error"]
  ELSE Morph(c.nd, n, c.node)

\* room for a tree, a fresh node to unmarshal into and the parsed copy
JsonHeap == [n \in 1..(2 * MaxJsonNodes + 1) |-> ZeroNode]

\* n.T = t; n.V = v on every node k of 1..N
RECURSIVE WithKinds(_, _, _)
WithKinds(nd, kinds, k) ==
  IF k \notin DOMAIN kinds THEN nd
  ELSE WithKinds(Set(Set(nd, k, "T", kinds[k][1]), k, "V", kinds[k][2]), kinds, k + 1)

InitJSON ==
  /\ \E N \in 1..MaxJsonNodes : \E ch \in Joins(N) : \E kinds \in [1..N -> NodeKinds] :
       /\ nodes = WithKinds(Grow(Seed(JsonHeap, 1, <<1, "">>), 2, ch), kinds, 1)
       /\ seeded = N
  /\ prev = nodes
  /\ last = NoCall
  /\ vtop = nil /\ rvals = "nil" /\ stack = <<>>
  /\ acts = <<>> /\ recvd = <<>> /\ consumer = "stopped"
  /\ lim = 0 /\ apc = "none" /\ flat = <<>> /\ idx = 0 /\ fill = 0
  /\ sem = 0 /\ task = <<>> /\ ran = <<>> /\ got = <<>>

\* b, err := n.MarshalJSON()
DoMarshal ==
  /\ last.op = "none"
  /\ \E n \in Live :
       last' = CallErr("MarshalJSON", n, nil, MarshalJSON(nodes, n), "nil")
  /\ prev' = nodes
  /\ UNCHANGED <<nodes, seeded, travVars>>

\* m := Seed(); err := m.UnmarshalJSON(b), with the b just marshaled
DoUnmarshal ==
  /\ last.op = "MarshalJSON"
  /\ LET m == seeded + 1
         u == UnmarshalJSON(Seed(nodes, m, <<0, "">>), m, last.ret, m + 1)
     IN  /\ nodes' = u.nd
         /\ last' = CallErr("UnmarshalJSON", m, last.ret, nil, u.err)
  /\ prev' = nodes
  /\ UNCHANGED <<seeded, travVars>>

NextJSON ==
  \/ DoMarshal
  \/ DoUnmarshal

SpecJSON == InitJSON /\ [][NextJSON]_vars

\* ------------------------------------------------------------ C1
SiblingConsistent(nd) ==
  \A n \in DOMAIN nd :
    /\ nd[n].left # nil => nd[nd[n].left].right = n
    /\ nd[n].right # nil => nd[nd[n].right].left = n

ParentBoundary(nd) ==
  \A n \in DOMAIN nd :
    nd[n].up # nil =>
      /\ nd[n].left = nil => nd[nd[n].up].first = n
      /\ nd[n].right = nil => nd[nd[n].up].last = n

\* C1: after every GraftRight, GraftLeft, GraftUnder and Prune call made
\* within the caller contract (argument parentless, sibling free, not the
\* receiver nor above it) every node's left and right links are mutual, and a
\* node without a left (right) sibling is its parent's first (last) child.
C1_LinksConsistent ==
  /\ SiblingConsistent(nodes)
  /\ ParentBoundary(nodes)

\* a graft to the left of a first child: the parent's first pointer moved
C1_Witness ==
  /\ last.op = "GraftLeft"
  /\ prev[last.n].up # nil
  /\ prev[last.n].left = nil
  /\ prev[last.n].right # nil
  /\ nodes[prev[last.n].up].first = last.c

\* ------------------------------------------------------------ C2
Without(seq, x) == SelectSeq(seq, LAMBDA e : e # x)

PruneEffect(before, after, n, ret) ==
  LET p == before[n].up
      kids == AllUnder(before, p)
      rest == Without(kids, n)
      touched == {n, p, before[n].left, before[n].right}
  IN  /\ ret = n
      /\ AllUnder(after, p) = rest
      /\ Len(rest) = Len(kids) - 1
      /\ after[p].first = (IF rest = <<>> THEN nil ELSE Head(rest))
      /\ after[p].last = (IF rest = <<>> THEN nil ELSE rest[Len(rest)])
      /\ after[n].up = nil /\ after[n].left = nil /\ after[n].right = nil
      /\ after[n].first = before[n].first /\ after[n].last = before[n].last
      /\ after[n].T = before[n].T /\ after[n].V = before[n].V
      /\ AllUnder(after, n) = AllUnder(before, n)
      /\ Subtree(after, n) = Subtree(before, n)
      /\ \A m \in Subtree(before, n) \ {n} : after[m] = before[m]
      /\ before[n].first = nil => IsDetached(after, n)
      /\ before[n].first # nil => IsRoot(after, n) /\ IsBranch(after, n)
      /\ \A m \in DOMAIN before : m \notin touched => after[m] = before[m]
      /\ after[p].up = before[p].up /\ after[p].left = before[p].left
      /\ after[p].right = before[p].right

\* C2: Prune of a node n that has a parent p returns n, takes n out of p's
\* child sequence leaving the others in order with p.first/p.last repaired,
\* leaves n parentless and sibling free with its own subtree untouched, and
\* changes no node besides n, p and n's two former neighbours.
C2_PruneDetachesOnlyN ==
  (last.op = "Prune" /\ prev[last.n].up # nil) =>
    PruneEffect(prev, nodes, last.n, last.ret)

\* the middle child of three was pruned
C2_Witness ==
  /\ last.op = "Prune"
  /\ prev[last.n].up # nil
  /\ prev[last.n].left # nil
  /\ prev[last.n].right # nil
  /\ Len(AllUnder(nodes, prev[last.n].up)) = 2

\* ------------------------------------------------------------ C3
TakeEffect(before, after, n, from, steps) ==
  LET moved == AllUnder(before, from)
  IN  /\ steps = Len(moved)
      /\ after[from].first = nil /\ after[from].last = nil
      /\ AllUnder(after, from) = <<>>
      /\ AllUnder(after, n) = AllUnder(before, n) \o moved
      /\ \A i \in 1..Len(moved) : after[moved[i]].up = n
      /\ AllUnder(before, n) = <<>> => AllUnder(after, n) = moved

\* C3: n.Take(source), n distinct from source and not inside it, ends after
\* exactly as many prune-and-graft steps as source had children; source is
\* left childless and its former children follow, in their order, the
\* children n already had, each with n as its parent.
C3_TakeDrainsInOrder ==
  last.op = "Take" =>
    TakeEffect(prev, nodes, last.n, last.c, last.steps)

\* two children were moved to the right of a child the receiver already had
C3_Witness ==
  /\ last.op = "Take"
  /\ last.steps = 2
  /\ Len(AllUnder(prev, last.n)) = 1
  /\ Len(AllUnder(nodes, last.n)) = 3

\* ------------------------------------------------------------ C4
\* C4: a node that has just been given a child (GraftUnder, NewUnder, or a
\* Take that moved something into it) has the empty value, and so no node
\* ever has both a child and a non-empty value.
C4_BranchValueCleared ==
  /\ (last.op \in {"GraftUnder", "NewUnder"} \/ (last.op = "Take" /\ last.steps > 0))
       => nodes[last.n].V = ""
  /\ \A n \in Live : nodes[n].first # nil => nodes[n].V = ""

\* ------------------------------------------------------------ C5
\* the goroutines launched that have not yet received from sem
Unreleased == {t \in TreeNodes : task[t] \in {"act", "send", "release"}}

\* C5: with lim >= 2, at every point of every interleaving of VisitAsync at
\* most lim launched goroutines have not yet released their slot, and each of
\* them is covered by a value in sem that was sent before it was launched.
C5_AtMostLimTasks ==
  lim >= 2 =>
    /\ Cardinality(Unreleased) <= lim
    /\ Cardinality(Unreleased) <= sem
    /\ sem <= lim
    /\ apc = "go" => Cardinality(Unreleased) < sem

\* every slot is taken, one holder blocked in its send, and the caller is
\* held at sem <- true with nodes still to launch
C5_Witness ==
  /\ lim >= 2
  /\ Cardinality(Unreleased) = lim
  /\ apc = "acquire" /\ idx <= Len(flat)
  /\ \E t \in TreeNodes : task[t] = "send"

\* ------------------------------------------------------------ C6
\* C6: once rvals is closed no goroutine has an Action or a send still to do;
\* when VisitAsync has returned the Action has run exactly once on each node
\* of the receiver's subtree and on no other, every goroutine has ended and
\* given back its slot; a nil rvals is never closed.
C6_CloseAfterAllTasks ==
  lim >= 2 =>
    /\ rvals = "closed" => \A t \in TreeNodes : task[t] \in {"idle", "done"}
    /\ \A t \in TreeNodes : got[t] <= ran[t]
    /\ apc = "done" =>
         /\ \A t \in Subtree(nodes, vtop) : ran[t] = 1 /\ task[t] = "done"
         /\ \A t \in TreeNodes \ Subtree(nodes, vtop) : ran[t] = 0 /\ task[t] = "idle"
         /\ Unreleased = {}
         /\ last.c = "open" => rvals = "closed" /\ \A t \in Subtree(nodes, vtop) : got[t] = 1
    /\ last.c = "nil" => rvals = "nil"
    /\ apc # "done" => rvals # "closed"

\* VisitAsync returned after closing the channel, from a walk of three or
\* more nodes
C6_Witness ==
  /\ lim >= 2
  /\ apc = "done"
  /\ rvals = "closed"
  /\ Len(flat) >= 3

\* ------------------------------------------------------------ C7
AllDelivered ==
  /\ apc = "done"
  /\ rvals = "closed"
  /\ \A t \in TreeNodes : got[t] = (IF t \in Subtree(nodes, vtop) THEN 1 ELSE 0)

\* C7: with lim >= 2, terminating Actions and a consumer that keeps
\* receiving, VisitAsync eventually has delivered one result per node of the
\* subtree, closed the channel and returned, whether the subtree has more
\* nodes than lim or not.
C7_AsyncDelivers ==
  (apc = "start" /\ lim >= 2 /\ rvals = "open") ~> AllDelivered

\* all results of a subtree larger than lim were delivered
C7_Witness ==
  /\ AllDelivered
  /\ lim >= 2
  /\ Len(flat) > lim

\* ------------------------------------------------------------ C10
\* C10: VisitAsync with lim < 2 panics: the only step it takes is the panic,
\* no Action runs, no goroutine is launched, nothing is sent and the channel
\* is not closed.
C10_PanicBelowTwo ==
  lim < 2 =>
    /\ apc \in {"start", "panic"}
    /\ apc = "start" => ENABLED AsyncPanic
    /\ \A t \in TreeNodes : task[t] = "idle" /\ ran[t] = 0 /\ got[t] = 0
    /\ flat = <<>> /\ sem = 0
    /\ rvals = last.c

\* the panic, with a limit of 1 and a channel handed in
C10_Witness ==
  /\ apc = "panic"
  /\ lim = 1
  /\ rvals = "open"

\* ------------------------------------------------------------ C8
\* the pre-order, left to right enumeration read off the first/right links
RECURSIVE PreOrder(_, _), PreOrderFrom(_, _)
PreOrder(nd, n) == <<n>> \o PreOrderFrom(nd, nd[n].first)

PreOrderFrom(nd, c) ==
  IF c = nil THEN <<>> ELSE PreOrder(nd, c) \o PreOrderFrom(nd, nd[c].right)

IsPrefix(s, t) == Len(s) <= Len(t) /\ s = SubSeq(t, 1, Len(s))

\* the position of node m in the sequence s of distinct nodes
Pos(s, m) == CHOOSE i \in 1..Len(s) : s[i] = m

Range(s) == {s[i] : i \in 1..Len(s)}

PreOrdered(nd, top, s) ==
  /\ Range(s) = Subtree(nd, top)
  /\ Len(s) = Cardinality(Subtree(nd, top))
  /\ s[1] = top
  /\ \A m \in Subtree(nd, top) \ {top} :
       /\ Pos(s, nd[m].up) < Pos(s, m)
       /\ nd[m].right # nil =>
            \A d \in Subtree(nd, m) : Pos(s, d) < Pos(s, nd[m].right)

\* C8: Visit(act, nil) calls act once on each node of the receiver's subtree
\* and on no other, a node before its descendants, a child's whole subtree
\* before the sibling to its right; the calls made so far are always a prefix
\* of the manual pre-order enumeration, equal to it when Visit returns, and
\* the heap is left as it was.
C8_VisitPreOrder ==
  rvals = "nil" =>
    /\ nodes = prev
    /\ IsPrefix(acts, PreOrder(nodes, vtop))
    /\ stack = <<>> =>
         /\ acts = PreOrder(nodes, vtop)
         /\ PreOrdered(nodes, vtop, acts)

\* Visit returned from a receiver that has a parent, a right sibling and a
\* child: the walk stayed inside the subtree
C8_Witness ==
  /\ rvals = "nil"
  /\ stack = <<>>
  /\ nodes[vtop].up # nil
  /\ nodes[vtop].right # nil
  /\ Len(acts) = 2

\* ------------------------------------------------------------ C9
Results(s) == [i \in 1..Len(s) |-> ActValue(s[i])]

\* C9: with a results channel, Visit sends act's return value for each node
\* it visits, once, and the consumer receives them in pre-order; act is not
\* called on the next node before the previous value has been received.
C9_VisitSendsInOrder ==
  rvals = "open" =>
    /\ IsPrefix(acts, PreOrder(nodes, vtop))
    /\ recvd = Results(SubSeq(acts, 1, Len(recvd)))
    /\ Len(acts) - Len(recvd) \in {0, 1}
    /\ (stack # <<>> /\ Top.pc = "act") => Len(recvd) = Len(acts)
    /\ stack = <<>> => recvd = Results(PreOrder(nodes, vtop))

\* Visit is blocked in its third send while the consumer is still busy
C9_Witness ==
  /\ rvals = "open"
  /\ stack # <<>> /\ Top.pc = "send"
  /\ consumer = "busy"
  /\ Len(recvd) = 2
  /\ Len(acts) = 3

\* ------------------------------------------------------------ C18
ChildListsWellFormed(nd) ==
  /\ \A p \in DOMAIN nd :
       /\ nd[p].first = nil <=> nd[p].last = nil
       /\ nd[p].first # nil =>
            LET kids == AllUnder(nd, p) IN
              /\ nd[nd[p].first].left = nil
              /\ nd[nd[p].last].right = nil
              /\ Len(kids) <= Cardinality(DOMAIN nd)
              /\ Cardinality(Range(kids)) = Len(kids)
              /\ kids[Len(kids)] = nd[p].last
              /\ \A i \in 1..Len(kids) : nd[kids[i]].up = p
  /\ \A p, q \in DOMAIN nd :
       p # q => Range(AllUnder(nd, p)) \cap Range(AllUnder(nd, q)) = {}

\* C18: after any sequence of GraftUnder, GraftRight, GraftLeft, Prune and
\* Take calls within the caller contract, every node has first and last nil
\* together; otherwise first has no left and last no right sibling, the right
\* links from first reach last without repeating a node, every node on that
\* chain has the node as its parent, and no node is on two child chains.
C18_ChildListsWellFormed == ChildListsWellFormed(nodes)

\* the last of several children was pruned: the parent's last pointer moved
C18_Witness ==
  /\ last.op = "Prune"
  /\ prev[last.n].up # nil
  /\ prev[last.n].right = nil
  /\ prev[last.n].left # nil
  /\ nodes[prev[last.n].up].last = prev[last.n].left

\* ------------------------------------------------------------ C14
\* C14: n.Morph(nil) returns an error and changes nothing: n keeps its type,
\* value and five links, and every other node is as it was.
C14_MorphNilChangesNothing ==
  (last.op = "Morph" /\ last.c = nil) =>
    /\ last.err = "error"
    /\ nodes = prev

\* Morph(nil) on a node that has a parent and a child
C14_Witness ==
  /\ last.op = "Morph"
  /\ last.c = nil
  /\ prev[last.n].up # nil
  /\ prev[last.n].first # nil
  /\ prev[last.n].V # ""

\* ------------------------------------------------------------ C15
Replaced(seq, x, y) == [i \in 1..Len(seq) |-> IF seq[i] = x THEN y ELSE seq[i]]

GraftEffect(before, after, n, c, ret, err) ==
  LET p == before[n].up
      kids == Replaced(AllUnder(before, p), n, c)
  IN  /\ err = "nil"
      /\ ret = c
      /\ AllUnder(after, p) = kids
      /\ after[p].first = kids[1]
      /\ after[p].last = kids[Len(kids)]
      /\ before[n].left # nil => after[before[n].left].right = c
      /\ before[n].right # nil => after[before[n].right].left = c
      /\ after[c].up = p
      /\ after[c].left = before[n].left
      /\ after[c].right = before[n].right
      /\ after[c].first = before[c].first /\ after[c].last = before[c].last
      /\ AllUnder(after, c) = AllUnder(before, c)
      /\ after[n].up = nil /\ after[n].left = nil /\ after[n].right = nil
      /\ after[n].first = before[n].first /\ after[n].last = before[n].last
      /\ AllUnder(after, n) = AllUnder(before, n)
      /\ \A i \in 1..Len(AllUnder(after, n)) : after[AllUnder(after, n)[i]].up = n
      /\ Subtree(after, n) = Subtree(before, n)
      /\ Subtree(after, n) \cap Subtree(after, c) = {}

\* C15: for n with a parent p and a parentless, sibling free c that is not n
\* nor above n, n.Graft(c) returns c; c stands where n stood in p's child
\* sequence, with n's former parent, left and right, and its own children; n
\* is left parentless and sibling free with its own children, which still
\* have n as their parent.
C15_GraftReplacesInPlace ==
  (last.op = "Graft" /\ prev[last.n].up # nil) =>
    GraftEffect(prev, nodes, last.n, last.c, last.ret, last.err)

\* a first child that has a right sibling and a child of its own was replaced
C15_Witness ==
  /\ last.op = "Graft"
  /\ prev[last.n].up # nil
  /\ prev[last.n].left = nil
  /\ prev[last.n].right # nil
  /\ nodes[prev[last.n].up].first = last.c

\* ------------------------------------------------------------ C16
\* C16: n.Morph(source) with any non-nil source, n itself included, returns
\* nil and leaves n with the type, value and five links source had before
\* the call, every other node unchanged.
C16_MorphCopiesSource ==
  (last.op = "Morph" /\ last.c # nil) =>
    /\ last.err = "nil"
    /\ nodes[last.n] = prev[last.c]
    /\ \A m \in DOMAIN nodes : m # last.n => nodes[m] = prev[m]

\* ------------------------------------------------------------ C17
\* C17: after n.Morph(source) with an attached source, n's left and right
\* neighbours point back at n, and n's parent has n as its first (last)
\* child when n has no left (right) sibling.
C17_MorphKeepsLinksMutual ==
  (/\ last.op = "Morph" /\ last.c # nil
   /\ (prev[last.c].up # nil \/ prev[last.c].left # nil \/ prev[last.c].right # nil)) =>
    LET n == last.n IN
      /\ nodes[n].left # nil => nodes[nodes[n].left].right = n
      /\ nodes[n].right # nil => nodes[nodes[n].right].left = n
      /\ nodes[n].up # nil =>
           /\ nodes[n].left = nil => nodes[nodes[n].up].first = n
           /\ nodes[n].right = nil => nodes[nodes[n].up].last = n

\* ------------------------------------------------------------ C19
\* C19: after n.Morph(source) for a source with children, every node of
\* n.AllUnder() has n as its parent.
C19_MorphedChildrenReportN ==
  (last.op = "Morph" /\ last.c # nil /\ prev[last.c].first # nil) =>
    \A i \in 1..Len(AllUnder(nodes, last.n)) :
      nodes[AllUnder(nodes, last.n)[i]].up = last.n

\* ------------------------------------------------------------ C20
\* C20: n.Graft(c) on a parentless n runs without a fault, returns c, leaves
\* c parentless with n's former siblings linked to it, and n parentless and
\* sibling free.
C20_GraftOnRootCompletes ==
  (last.op = "Graft" /\ prev[last.n].up = nil) =>
    /\ last.err = "nil"
    /\ last.ret = last.c
    /\ nodes[last.c].up = nil
    /\ nodes[last.n].up = nil /\ nodes[last.n].left = nil /\ nodes[last.n].right = nil
    /\ prev[last.n].left # nil => nodes[prev[last.n].left].right = last.c
    /\ prev[last.n].right # nil => nodes[prev[last.n].right].left = last.c

\* ------------------------------------------------------------ C11
\* the encodings of c and of the siblings to its right, joined with commas
RECURSIVE SiblingsJSON(_, _)
SiblingsJSON(nd, c) ==
  IF nd[c].right = nil THEN JSON(nd, c)
  ELSE JSON(nd, c) \o "," \o SiblingsJSON(nd, nd[c].right)

FourShapes(nd, n, b) ==
  LET t == ToString(nd[n].T)
      childless == nd[n].first = nil
  IN  /\ (childless /\ nd[n].V = "" /\ nd[n].T = 0) => b = "[]"
      /\ (childless /\ nd[n].V = "" /\ nd[n].T # 0) => b = "[" \o t \o "]"
      /\ (childless /\ nd[n].V # "") =>
           b = "[" \o t \o ",\"" \o Escape(nd[n].V) \o "\"]"
      /\ ~childless => b = "[" \o t \o ",[" \o SiblingsJSON(nd, nd[n].first) \o "]]"

\* a node of type 1 with exactly two children, leaves "A" and "B" of type 2
RootWithLeavesAB(nd, n) ==
  /\ nd[n].T = 1
  /\ nd[n].first # nil /\ nd[nd[n].first].right = nd[n].last
  /\ nd[n].first # nd[n].last
  /\ nd[nd[n].first] = [nd[nd[n].first] EXCEPT !.T = 2, !.V = "A", !.first = nil]
  /\ nd[nd[n].last] = [nd[nd[n].last] EXCEPT !.T = 2, !.V = "B", !.first = nil]

\* C11: MarshalJSON returns a nil error and [] for a childless, valueless
\* node of type 0, [T] for one of another type, [T,"value"] for a childless
\* node with a value, and [T,[e1,...,ek]] for a node with children, the ei
\* being the children's encodings from first to last; the root of type 1
\* with leaves "A" and "B" of type 2 gives [1,[[2,"A"],[2,"B"]]].
C11_MarshalFourShapes ==
  last.op = "MarshalJSON" =>
    /\ last.err = "nil"
    /\ FourShapes(nodes, last.n, Join(last.ret))
    /\ RootWithLeavesAB(nodes, last.n) => Join(last.ret) = "[1,[[2,\"A\"],[2,\"B\"]]]"

\* the concrete scenario was marshaled
C11_Witness ==
  /\ last.op = "MarshalJSON"
  /\ RootWithLeavesAB(nodes, last.n)
  /\ Join(last.ret) = "[1,[[2,\"A\"],[2,\"B\"]]]"

\* ------------------------------------------------------------ C12
\* C12: the encoding of a node of type 0 carries no type code for it,
\* whatever its value and children: the opening bracket is not followed by
\* the digits of 0.
C12_TypeZeroNeverVisible ==
  (last.op = "MarshalJSON" /\ nodes[last.n].T = 0) =>
    Tok(last.ret, 2) # ToString(0)

\* ------------------------------------------------------------ C13
\* C13: b := n.MarshalJSON(); m.UnmarshalJSON(b) on a fresh m succeeds, and
\* m.MarshalJSON() is then byte for byte b.
C13_RoundTrip ==
  last.op = "UnmarshalJSON" =>
    /\ last.err = "nil"
    /\ MarshalJSON(nodes, last.n) = last.c
    /\ JSON(nodes, last.n) = Join(last.c)

\* a node of type 0 with a first child whose value holds a quote came back
C13_Witness ==
  /\ last.op = "UnmarshalJSON"
  /\ last.err = "nil"
  /\ nodes[last.n].T = 0
  /\ nodes[last.n].first # nil
  /\ nodes[nodes[last.n].first].V = "\""
  /\ nodes[last.n].first # nodes[last.n].last

====
